---------------------------- MODULE Spec2Model ----------------------------
(***************************************************************************)
(* Model of the ReCpp build recipes: mamafile.py (class ReCpp, a           *)
(* mama.BuildTarget) and conanfile.py (class RecppConan).                  *)
(*                                                                         *)
(* The build tool constructs a fresh target object and invokes one of its  *)
(* handlers: package(), configure(), test(args) of mamafile.py, or test()  *)
(* of conanfile.py.  The handler's effects are the calls it makes on the   *)
(* build framework; they are recorded in the variables below.              *)
(*                                                                         *)
(* Text is modelled as a sequence of symbols; every symbol is one          *)
(* character, except the path symbols "bin/RppTests", "bin" and "SRC/"     *)
(* which stand for those character runs (none of them contains a blank or  *)
(* a character of the sentinel).                                           *)
(***************************************************************************)
EXTENDS Integers, Sequences, FiniteSets, TLC

VARIABLES
    handler,          \* the handler the build tool invokes on the target
    pc,               \* "start", "running", "returned" or "fatal"
    platform,         \* the platform flags of the target that are true
    cmake_build_type, \* self.cmake_build_type
    calls,            \* package(): the framework calls made, in order
    env,              \* the process environment: name -> value, partial
    config_test,      \* self.config.test
    cxx17,            \* self.is_enabled_cxx17()
    cxx20,            \* self.is_enabled_cxx20()
    cmake_opts,       \* configure(): the CMake options added, in order
    cl_flags,         \* configure(): the MSVC flags added, in order
    args,             \* test(args): the raw test-argument string
    procs,            \* the external processes spawned, in order
    exit_code,        \* exit status of the spawned process, NotExited before
    error             \* the fatal error raised, NoError if none

vars == <<handler, pc, platform, cmake_build_type, calls, env, config_test,
          cxx17, cxx20, cmake_opts, cl_flags, args, procs, exit_code, error>>

-----------------------------------------------------------------------------
(* Bounds of the model *)

\* a test-argument string is made of at most this many pieces of ArgPieces
MaxPieces == 4

\* at most this many environment variables are set
MaxEnvSet == 2

-----------------------------------------------------------------------------
(* package(): mamafile.py 33-56 *)

PlatformFlags ==
    {"windows", "linux", "android", "macos", "ios", "raspi", "oclea", "mips"}

BuildTypes == {"Debug", "Release"}

Call(op, arg, hint) == [op |-> op, arg |-> arg, hint |-> hint]

\* self.export_syslib(name) and self.export_syslib(name, apt_hint)
export_syslib(name, hint) == Call("export_syslib", name, hint)

\* lines 41-56 with every elif read as an if
package_syslibs_union(p) ==
    (IF "raspi" \in p \/ "oclea" \in p
        THEN <<export_syslib("dl", ""), export_syslib("rt", "")>> ELSE <<>>)
    \o (IF "mips" \in p
        THEN <<export_syslib("dl", ""), export_syslib("rt", ""),
               export_syslib("atomic", "")>> ELSE <<>>)
    \o (IF "linux" \in p
        THEN <<export_syslib("dl", ""), export_syslib("dw", "libdw-dev"),
               export_syslib("rt", "")>> ELSE <<>>)
    \o (IF "android" \in p
        THEN <<export_syslib("android", ""), export_syslib("log", "")>> ELSE <<>>)
    \o (IF "macos" \in p \/ "ios" \in p
        THEN <<export_syslib("-framework Foundation", "")>> ELSE <<>>)

\* lines 44-47 with the atomic export lost
package_syslibs_mips_no_atomic(p) ==
    IF "raspi" \in p \/ "oclea" \in p THEN
        <<export_syslib("dl", ""), export_syslib("rt", "")>>
    ELSE IF "mips" \in p THEN
        <<export_syslib("dl", ""), export_syslib("rt", "")>>
    ELSE IF "linux" \in p THEN
        <<export_syslib("dl", ""), export_syslib("dw", "libdw-dev"),
          export_syslib("rt", "")>>
    ELSE IF "android" \in p THEN
        <<export_syslib("android", ""), export_syslib("log", "")>>
    ELSE IF "macos" \in p \/ "ios" \in p THEN
        <<export_syslib("-framework Foundation", "")>>
    ELSE <<>>

\* lines 41-56
package_syslibs(p) ==
    IF "raspi" \in p \/ "oclea" \in p THEN
        <<export_syslib("dl", ""), export_syslib("rt", "")>>
    ELSE IF "mips" \in p THEN
        <<export_syslib("dl", ""), export_syslib("rt", ""),
          export_syslib("atomic", "")>>
    ELSE IF "linux" \in p THEN
        <<export_syslib("dl", ""), export_syslib("dw", "libdw-dev"),
          export_syslib("rt", "")>>
    ELSE IF "android" \in p THEN
        <<export_syslib("android", ""), export_syslib("log", "")>>
    ELSE IF "macos" \in p \/ "ios" \in p THEN
        <<export_syslib("-framework Foundation", "")>>
    ELSE <<>>

\* line 37: f'{self.cmake_build_type}/ReCpp.lib'
windows_lib(bt) ==
    CASE bt = "Debug"   -> "Debug/ReCpp.lib"
      [] bt = "Release" -> "Release/ReCpp.lib"

\* lines 36-39: the library artifact, chosen by self.windows
package_lib_by_linux(p, bt) ==
    IF "linux" \in p
        THEN <<Call("export_lib", "libReCpp.a", "")>>
        ELSE <<Call("export_lib", windows_lib(bt), "")>>

package_lib(p, bt) ==
    IF "windows" \in p
        THEN <<Call("export_lib", windows_lib(bt), "")>>
        ELSE <<Call("export_lib", "libReCpp.a", "")>>

\* lines 34-35: the header copy
package_copy ==
    <<Call("copy", "src/rpp/", "include/rpp/")>>

\* the whole handler: copy, export_lib, then the system libraries
package_calls(p, bt) ==
    package_copy \o package_lib(p, bt) \o package_syslibs(p)

package ==
    /\ handler = "package"
    /\ pc = "start"
    /\ calls' = package_calls(platform, cmake_build_type)
    /\ pc' = "returned"
    /\ UNCHANGED <<handler, platform, cmake_build_type, env, config_test,
                   cxx17, cxx20, cmake_opts, cl_flags, args, procs,
                   exit_code, error>>

-----------------------------------------------------------------------------
(* configure(): mamafile.py 20-30 *)

\* the names configure() looks up in the environment
EnvNames ==
    {"BUILD_TESTS", "BUILD_WITH_MEM_SAFETY", "BUILD_WITH_THREAD_SAFETY",
     "BUILD_WITH_CODE_COVERAGE", "CXX17", "CXX20", "APPVEYOR"}

\* the values an environment variable that is set may hold
EnvValues == {"", "0", "OFF", "1", "ON", "TRUE", "on"}

\* the values of self.config.test
TestStrings == {"", "all"}

\* os.getenv(name) != None
getenv_set(e, name) == name \in DOMAIN e

\* mama.BuildTarget.enable_from_env(name, force): the option NAME=ON is
\* added when the environment value is "1", "ON" or "TRUE" or force holds
env_enabled(e, name) ==
    /\ getenv_set(e, name)
    /\ e[name] \in {"1", "ON", "TRUE"}

enable_from_env(opts, e, name, force) ==
    IF force \/ env_enabled(e, name)
        THEN Append(opts, [name |-> name, value |-> "ON"])
        ELSE opts

\* lines 25-30 with no force on BUILD_TESTS
configure_opts_unforced_tests(e, t, c17, c20) ==
    LET o1 == enable_from_env(<<>>, e, "BUILD_TESTS", FALSE)
        o2 == enable_from_env(o1, e, "BUILD_WITH_MEM_SAFETY", FALSE)
        o3 == enable_from_env(o2, e, "BUILD_WITH_THREAD_SAFETY", FALSE)
        o4 == enable_from_env(o3, e, "BUILD_WITH_CODE_COVERAGE", FALSE)
        o5 == enable_from_env(o4, e, "CXX17", c17)
        o6 == enable_from_env(o5, e, "CXX20", c20)
    IN  o6

\* lines 25-30 with the CXX20 call before the CXX17 call
configure_opts_cxx20_first(e, t, c17, c20) ==
    LET o1 == enable_from_env(<<>>, e, "BUILD_TESTS", t # "")
        o2 == enable_from_env(o1, e, "BUILD_WITH_MEM_SAFETY", FALSE)
        o3 == enable_from_env(o2, e, "BUILD_WITH_THREAD_SAFETY", FALSE)
        o4 == enable_from_env(o3, e, "BUILD_WITH_CODE_COVERAGE", FALSE)
        o5 == enable_from_env(o4, e, "CXX20", c20)
        o6 == enable_from_env(o5, e, "CXX17", c17)
    IN  o6

\* lines 25-30: the six enable_from_env calls, in order
configure_opts(e, t, c17, c20) ==
    LET o1 == enable_from_env(<<>>, e, "BUILD_TESTS", t # "")
        o2 == enable_from_env(o1, e, "BUILD_WITH_MEM_SAFETY", FALSE)
        o3 == enable_from_env(o2, e, "BUILD_WITH_THREAD_SAFETY", FALSE)
        o4 == enable_from_env(o3, e, "BUILD_WITH_CODE_COVERAGE", FALSE)
        o5 == enable_from_env(o4, e, "CXX17", c17)
        o6 == enable_from_env(o5, e, "CXX20", c20)
    IN  o6

\* lines 21-22: self.add_cl_flags('/DAPPVEYOR')
configure_cl_flags(p, e) ==
    IF "windows" \in p /\ getenv_set(e, "APPVEYOR")
        THEN <<"/DAPPVEYOR">>
        ELSE <<>>

configure ==
    /\ handler = "configure"
    /\ pc = "start"
    /\ cl_flags' = configure_cl_flags(platform, env)
    /\ cmake_opts' = configure_opts(env, config_test, cxx17, cxx20)
    /\ pc' = "returned"
    /\ UNCHANGED <<handler, platform, cmake_build_type, calls, env,
                   config_test, cxx17, cxx20, args, procs, exit_code, error>>

-----------------------------------------------------------------------------
(* Text helpers: Python str operations on sequences of symbols *)

Blank == " "

\* the sentinel 'nogdb'
NOGDB == <<"n", "o", "g", "d", "b">>

\* sub in s
str_in(sub, s) ==
    \E i \in 1..(Len(s) - Len(sub) + 1) :
        SubSeq(s, i, i + Len(sub) - 1) = sub

\* s.replace(old, new): every non-overlapping occurrence, left to right
RECURSIVE str_replace(_, _, _)
str_replace(s, old, new) ==
    IF Len(s) < Len(old) THEN s
    ELSE IF SubSeq(s, 1, Len(old)) = old
        THEN new \o str_replace(SubSeq(s, Len(old) + 1, Len(s)), old, new)
        ELSE <<Head(s)>> \o str_replace(Tail(s), old, new)

\* the words of a command line: maximal runs of non-blank symbols
RECURSIVE Tokens(_)
Tokens(s) ==
    IF s = <<>> THEN <<>>
    ELSE IF Head(s) = Blank THEN Tokens(Tail(s))
    ELSE LET blanks == {i \in 1..Len(s) : s[i] = Blank}
             n == IF blanks = {} THEN Len(s)
                  ELSE (CHOOSE i \in blanks : \A j \in blanks : i <= j) - 1
         IN  <<SubSeq(s, 1, n)>> \o Tokens(SubSeq(s, n + 1, Len(s)))

-----------------------------------------------------------------------------
(* test(args): mamafile.py 64-69, and test(): conanfile.py 28-29 *)

\* exit statuses a test process may end with
ExitCodes == {0, 1, 7}

NotExited == -1

NoError == [cmdline |-> <<>>, code |-> 0]

\* f'bin/RppTests {args}'
rpptests_command(a) == <<"bin/RppTests", Blank>> \o a

\* self.source_dir(path): the path inside the source directory
source_dir(path) == <<"SRC/">> \o path

\* self.run_program(cwd, command): one process running the command
run_program(cwd, command) ==
    [via |-> "run_program", cwd |-> cwd, cmdline |-> command,
     program |-> command]

\* self.gdb(command, src_dir=True): one debugger session that runs the
\* command in batch mode and prints a backtrace
gdb(command) ==
    [via |-> "gdb", cwd |-> <<"SRC/">>,
     cmdline |-> <<"gdb", Blank, "-batch", Blank, "-ex=r", Blank, "-ex=bt",
                   Blank, "--args", Blank>> \o command,
     program |-> command]

\* ConanFile.run(command): one process running the command
conan_run(command) ==
    [via |-> "conan_run", cwd |-> <<>>, cmdline |-> command,
     program |-> command]

\* lines 65-69 with the else lost: the debugger session is started as well
test_procs_no_else(a) ==
    IF str_in(NOGDB, a)
        THEN <<run_program(source_dir(<<"bin">>),
                   source_dir(rpptests_command(str_replace(a, NOGDB, <<>>)))),
               gdb(rpptests_command(str_replace(a, NOGDB, <<>>)))>>
        ELSE <<gdb(rpptests_command(a))>>

\* lines 65-69: the processes test(args) starts
test_procs(a) ==
    IF str_in(NOGDB, a)
        THEN <<run_program(source_dir(<<"bin">>),
                   source_dir(rpptests_command(str_replace(a, NOGDB, <<>>))))>>
        ELSE <<gdb(rpptests_command(a))>>

test ==
    /\ handler = "test"
    /\ pc = "start"
    /\ procs' = test_procs(args)
    /\ pc' = "running"
    /\ UNCHANGED <<handler, platform, cmake_build_type, calls, env,
                   config_test, cxx17, cxx20, cmake_opts, cl_flags, args,
                   exit_code, error>>

\* conanfile.py 29: self.run("bin/RppTests")
conan_test ==
    /\ handler = "conan_test"
    /\ pc = "start"
    /\ procs' = <<conan_run(<<"bin/RppTests">>)>>
    /\ pc' = "running"
    /\ UNCHANGED <<handler, platform, cmake_build_type, calls, env,
                   config_test, cxx17, cxx20, cmake_opts, cl_flags, args,
                   exit_code, error>>

\* the started process exits and the blocked call ends: it returns on
\* status zero and raises a fatal error otherwise
proc_exit_swallow(code) ==
    /\ pc = "running"
    /\ exit_code' = code
    /\ pc' = "returned"
    /\ error' = NoError
    /\ UNCHANGED <<handler, platform, cmake_build_type, calls, env,
                   config_test, cxx17, cxx20, cmake_opts, cl_flags, args,
                   procs>>

proc_exit(code) ==
    /\ pc = "running"
    /\ exit_code' = code
    /\ IF code # 0
          THEN /\ pc' = "fatal"
               /\ error' = [cmdline |-> procs[1].cmdline, code |-> code]
          ELSE /\ pc' = "returned"
               /\ error' = NoError
    /\ UNCHANGED <<handler, platform, cmake_build_type, calls, env,
                   config_test, cxx17, cxx20, cmake_opts, cl_flags, args,
                   procs>>

-----------------------------------------------------------------------------
(* Inputs and specification *)

ArgPieces ==
    {NOGDB, <<Blank>>, <<"-", "v">>, <<"x">>, <<"n", "o", "g">>, <<"d", "b">>}

\* the strings made of at most n pieces
RECURSIVE StringsOf(_)
StringsOf(n) ==
    IF n = 0 THEN {<<>>}
    ELSE LET S == StringsOf(n - 1)
         IN  S \cup {s \o p : s \in S, p \in ArgPieces}

ArgStrings == StringsOf(MaxPieces)

\* the environments with at most MaxEnvSet variables set
Environments ==
    UNION {[S -> EnvValues] :
              S \in {T \in SUBSET EnvNames : Cardinality(T) <= MaxEnvSet}}

NoEnv == [n \in {} |-> ""]

Init ==
    /\ pc = "start"
    /\ calls = <<>>
    /\ cmake_opts = <<>>
    /\ cl_flags = <<>>
    /\ procs = <<>>
    /\ exit_code = NotExited
    /\ error = NoError
    /\ \/ /\ handler = "package"
          /\ platform \in SUBSET PlatformFlags
          /\ cmake_build_type \in BuildTypes
          /\ env = NoEnv /\ config_test = "" /\ cxx17 = FALSE /\ cxx20 = FALSE
          /\ args = <<>>
       \/ /\ handler = "configure"
          /\ platform \in {{}, {"windows"}, {"linux"}}
          /\ cmake_build_type = "Release"
          /\ env \in Environments
          /\ config_test \in TestStrings
          /\ cxx17 \in BOOLEAN
          /\ cxx20 \in BOOLEAN
          /\ args = <<>>
       \/ /\ handler = "test"
          /\ platform = {"linux"}
          /\ cmake_build_type = "Release"
          /\ env = NoEnv /\ config_test = "" /\ cxx17 = FALSE /\ cxx20 = FALSE
          /\ args \in ArgStrings
       \/ /\ handler = "conan_test"
          /\ platform = {"linux"}
          /\ cmake_build_type = "Release"
          /\ env = NoEnv /\ config_test = "" /\ cxx17 = FALSE /\ cxx20 = FALSE
          /\ args = <<>>

Next ==
    \/ package
    \/ configure
    \/ test
    \/ conan_test
    \/ \E code \in ExitCodes : proc_exit(code)

Spec == Init /\ [][Next]_vars

-----------------------------------------------------------------------------
(* Vocabulary of the properties *)

PackageReturned == handler = "package" /\ pc = "returned"

\* the system libraries package() exported, in order, as <<name, hint>>
SysLibsOf(cs) ==
    LET sl == SelectSeq(cs, LAMBDA c : c.op = "export_syslib")
    IN  [i \in 1..Len(sl) |-> <<sl[i].arg, sl[i].hint>>]

SysLibNames(cs) == {c[1] : c \in {SysLibsOf(cs)[i] : i \in 1..Len(SysLibsOf(cs))}}

\* the branches in priority order: the flags that select a branch, its list
PriorityTable ==
    << [flags |-> {"raspi", "oclea"},
        libs  |-> << <<"dl", "">>, <<"rt", "">> >>],
       [flags |-> {"mips"},
        libs  |-> << <<"dl", "">>, <<"rt", "">>, <<"atomic", "">> >>],
       [flags |-> {"linux"},
        libs  |-> << <<"dl", "">>, <<"dw", "libdw-dev">>, <<"rt", "">> >>],
       [flags |-> {"android"},
        libs  |-> << <<"android", "">>, <<"log", "">> >>],
       [flags |-> {"macos", "ios"},
        libs  |-> << <<"-framework Foundation", "">> >>] >>

NoBranch == Len(PriorityTable) + 1

\* the first branch in priority order one of whose flags is true
BranchOf(p) ==
    LET hit == {i \in 1..Len(PriorityTable) : PriorityTable[i].flags \cap p # {}}
    IN  IF hit = {} THEN NoBranch
        ELSE CHOOSE i \in hit : \A j \in hit : i <= j

\* the platform targets: one flag true, or none ("other")
Targets == {{f} : f \in PlatformFlags} \cup {{}}

\* C1: the system libraries package() exports are the whole ordered list of
\* the first branch, in the order raspi-or-oclea, mips, linux, android,
\* macos-or-ios, whose flag is true, and nothing of any other branch; with
\* no branch matching the list is empty and no error is raised.
C1_SysLibsByPriority ==
    PackageReturned =>
        /\ SysLibsOf(calls) =
               (IF BranchOf(platform) = NoBranch THEN <<>>
                ELSE PriorityTable[BranchOf(platform)].libs)
        /\ error = NoError

C1_Witness ==
    /\ PackageReturned
    /\ {"mips", "linux", "android", "macos"} \subseteq platform
    /\ platform \cap {"raspi", "oclea"} = {}
    /\ SysLibsOf(calls) = << <<"dl", "">>, <<"rt", "">>, <<"atomic", "">> >>

\* the call log of package() for the generic linux target
LinuxNames == SysLibNames(package_calls({"linux"}, "Release"))

MipsBranchTaken ==
    /\ PackageReturned
    /\ "mips" \in platform
    /\ platform \cap {"raspi", "oclea"} = {}

\* C2 as claimed: every library required for the linux target is also
\* required for the mips target, and atomic is required for mips only.
C2_MipsIsLinuxPlusAtomic ==
    MipsBranchTaken =>
        /\ LinuxNames \subseteq SysLibNames(calls)
        /\ "atomic" \in SysLibNames(calls) \ LinuxNames

\* C2 amended: the mips list is the linux list without dw and with atomic:
\* dl and rt are required for both, atomic for mips only, dw for linux only.
C2_MipsVersusLinux ==
    MipsBranchTaken =>
        /\ SysLibNames(calls) = (LinuxNames \ {"dw"}) \cup {"atomic"}
        /\ "atomic" \notin LinuxNames
        /\ "dw" \in LinuxNames

C2_Witness ==
    /\ MipsBranchTaken
    /\ platform = {"mips"}
    /\ "atomic" \in SysLibNames(calls)
    /\ "dw" \notin SysLibNames(calls)

\* the system libraries package() exports for target q
TargetLibs(q) == SysLibsOf(package_calls(q, "Release"))

TargetNames(q) == SysLibNames(package_calls(q, "Release"))

\* C8 as claimed: two distinct platform targets get an identical list only
\* when they are in the same branch, and no library name required for one
\* branch is required for a different branch.
C8_BranchesDisjoint ==
    (PackageReturned /\ platform \in Targets) =>
        \A q \in Targets :
            /\ SysLibsOf(calls) = TargetLibs(q)
                   => BranchOf(platform) = BranchOf(q)
            /\ BranchOf(platform) # BranchOf(q)
                   => SysLibNames(calls) \cap TargetNames(q) = {}

\* C8 amended: two distinct platform targets get an identical list only
\* when they are in the same branch (raspi with oclea, macos with ios) or
\* both match no branch (windows, other); the lists of different branches
\* differ, and the only names two different branches share are dl and rt.
C8_BranchesDistinct ==
    (PackageReturned /\ platform \in Targets) =>
        \A q \in Targets :
            /\ SysLibsOf(calls) = TargetLibs(q)
                   => BranchOf(platform) = BranchOf(q)
            /\ BranchOf(platform) # BranchOf(q)
                   => SysLibNames(calls) \cap TargetNames(q) \subseteq {"dl", "rt"}

C8_Witness ==
    /\ PackageReturned
    /\ platform = {"linux"}
    /\ SysLibNames(calls) \cap TargetNames({"mips"}) = {"dl", "rt"}
    /\ SysLibsOf(calls) # TargetLibs({"mips"})

\* C10: package() exports exactly one ReCpp library artifact, chosen by
\* the windows flag alone, after the header copy and before every system
\* library.
C10_OneLibraryArtifact ==
    PackageReturned =>
        /\ Len(calls) >= 2
        /\ calls[1].op = "copy"
        /\ calls[2].op = "export_lib"
        /\ \A i \in 3..Len(calls) : calls[i].op = "export_syslib"
        /\ calls[2].arg =
               (IF "windows" \in platform
                   THEN (IF cmake_build_type = "Debug"
                            THEN "Debug/ReCpp.lib" ELSE "Release/ReCpp.lib")
                   ELSE "libReCpp.a")

C10_Witness ==
    /\ PackageReturned
    /\ {"windows", "linux"} \subseteq platform
    /\ cmake_build_type = "Debug"
    /\ calls[2].arg = "Debug/ReCpp.lib"
    /\ Len(calls) = 5

-----------------------------------------------------------------------------
(* configure() *)

ConfigureReturned == handler = "configure" /\ pc = "returned"

\* the registered flags, in registry order
Registry ==
    <<"BUILD_TESTS", "BUILD_WITH_MEM_SAFETY", "BUILD_WITH_THREAD_SAFETY",
      "BUILD_WITH_CODE_COVERAGE", "CXX17", "CXX20">>

\* the force condition of a registered flag
Forced(n) ==
    CASE n = "BUILD_TESTS" -> config_test # ""
      [] n = "CXX17"       -> cxx17
      [] n = "CXX20"       -> cxx20
      [] OTHER             -> FALSE

\* the environment value of the flag is exactly "1", "ON" or "TRUE"
SetOn(n) ==
    /\ n \in DOMAIN env
    /\ env[n] = "1" \/ env[n] = "ON" \/ env[n] = "TRUE"

OptionNames == [i \in 1..Len(cmake_opts) |-> cmake_opts[i].name]

\* C5: configure() enables a registered flag if and only if its
\* environment value is exactly "1", "ON" or "TRUE" or its force condition
\* holds (test string non-empty for BUILD_TESTS, C++17 preferred for CXX17,
\* C++20 preferred for CXX20, never for the BUILD_WITH_ flags).
C5_EnabledIffSetOrForced ==
    ConfigureReturned =>
        \A i \in 1..Len(Registry) :
            (\E k \in 1..Len(cmake_opts) : cmake_opts[k].name = Registry[i])
                <=> (SetOn(Registry[i]) \/ Forced(Registry[i]))

C5_Witness ==
    /\ ConfigureReturned
    /\ config_test # ""
    /\ DOMAIN env = {"BUILD_TESTS", "BUILD_WITH_MEM_SAFETY"}
    /\ env["BUILD_TESTS"] = "OFF"
    /\ env["BUILD_WITH_MEM_SAFETY"] = "0"
    /\ ~cxx17
    /\ cxx20
    /\ OptionNames = <<"BUILD_TESTS", "CXX20">>

\* C6: after configure() the build options hold exactly one entry for each
\* enabled registered flag, none for a disabled one, in registry order.
C6_OneEntryEachInRegistryOrder ==
    ConfigureReturned =>
        OptionNames =
            SelectSeq(Registry, LAMBDA n : SetOn(n) \/ Forced(n))

C6_Witness ==
    /\ ConfigureReturned
    /\ cxx17
    /\ cxx20
    /\ DOMAIN env = {"CXX17", "BUILD_WITH_CODE_COVERAGE"}
    /\ env["CXX17"] = "ON"
    /\ env["BUILD_WITH_CODE_COVERAGE"] = "TRUE"
    /\ config_test = ""
    /\ OptionNames = <<"BUILD_WITH_CODE_COVERAGE", "CXX17", "CXX20">>

-----------------------------------------------------------------------------
(* test(args) *)

TestCalled == handler = "test" /\ pc # "start"

\* the arguments handed to the test executable: the words of the program's
\* command line after the executable
ProgramArgs(proc) == Tail(Tokens(proc.program))

\* C3: test(args) wraps the test executable in the debugger if and only if
\* no whitespace-separated token of args is the sentinel 'nogdb'.
C3_GdbIffNoSentinelToken ==
    TestCalled =>
        (procs[1].via = "gdb"
            <=> ~(\E i \in 1..Len(Tokens(args)) : Tokens(args)[i] = NOGDB))

\* C4: the arguments handed to the executable are exactly the tokens of
\* args other than the sentinel token, unchanged and in their order.
C4_ArgsAreNonSentinelTokens ==
    TestCalled =>
        ProgramArgs(procs[1]) = SelectSeq(Tokens(args), LAMBDA t : t # NOGDB)

\* C7: a test step whose process exits with a non-zero status ends in a
\* fatal error carrying the command line and the exit status; a zero status
\* never produces the error and a non-zero status never ends in success.
C7_NonZeroExitIsFatal ==
    (handler \in {"test", "conan_test"}) =>
        /\ pc = "fatal" <=> (exit_code # NotExited /\ exit_code # 0)
        /\ pc = "returned" <=> exit_code = 0
        /\ pc = "fatal" =>
               error = [cmdline |-> procs[1].cmdline, code |-> exit_code]
        /\ pc # "fatal" => error = NoError

C7_Witness ==
    /\ handler = "test"
    /\ pc = "fatal"
    /\ exit_code = 7
    /\ procs[1].via = "gdb"
    /\ args = <<"-", "v">>
    /\ error.code = 7
    /\ error.cmdline = procs[1].cmdline

\* C9: every call of test(args) spawns exactly one external process, a
\* direct run of bin/RppTests or a debugger session on it, and does not
\* end before that process has exited.
C9_ExactlyOneProcess ==
    (handler = "test") =>
        /\ pc = "start" => procs = <<>>
        /\ pc # "start" =>
               /\ Len(procs) = 1
               /\ procs[1].via \in {"run_program", "gdb"}
               /\ \E i \in 1..Len(Tokens(procs[1].program)[1]) :
                      Tokens(procs[1].program)[1][i] = "bin/RppTests"
        /\ pc \in {"returned", "fatal"} => exit_code # NotExited
        /\ pc = "running" => exit_code = NotExited

C9_Witness ==
    /\ handler = "test"
    /\ pc = "returned"
    /\ args = NOGDB \o <<Blank, "-", "v">>
    /\ Len(procs) = 1
    /\ procs[1].via = "run_program"
    /\ exit_code = 0

=============================================================================
